---- MODULE Spec2Model ----
(***************************************************************************)
(* SHAMBA soil carbon engine (RothC): the rate modifying factor, the       *)
(* inverse (equilibrium) solver, the forward solver and the scenario runs  *)
(* that chain them.                                                        *)
(*                                                                         *)
(* Fixed point.  Carbon (pools, stocks, inputs) is counted in 0.001 t C/ha,*)
(* partition coefficients and rate constants (per year) in 1/10000, the    *)
(* rate modifying factors in 1/1000.                                       *)
(***************************************************************************)
EXTENDS Integers, Sequences, FiniteSets, TLC

\* ------------------------------------------------------------------ bounds
\* number of candidate inputs of the inverse solver's grid that are scanned
GridLen == 4
\* cfg.N_YEARS, the number of years of a run
N_YEARS == 3
\* len(t), the number of rows odeint returns for a year (t = np.arange(0, 1, 0.001))
TSteps == 10

\* ------------------------------------------------------- program constants
\* the months of a year: np.ones(12), range(12)
Months == 12
\* np.arange(0.01, 10, 0.001): first candidate, end and step, in 0.001 t C/ha
GridStart == 10
GridStop == 10000
GridStep == 1
\* prevDiff = 1000.0 (t C/ha), in 0.001 t C/ha
PrevDiffInit == 1000000

\* 0.00000001 (t C/ha) of "currDiff - prevDiff_inner < 0.00000001", rounded up
\* to the unit of carbon: for whole numbers of units d, d < 0.00001 iff d < 1
TolCeil == 1

\* ----------------------------------------------------------------- helpers
Abs(v) == IF v < 0 THEN -v ELSE v

RECURSIVE SumSeq(_)
SumSeq(s) == IF s = <<>> THEN 0 ELSE Head(s) + SumSeq(Tail(s))

\* a / d rounded to the nearest whole number (d > 0)
RoundDiv(a, d) == IF a >= 0 THEN (a + d \div 2) \div d ELSE -((-a + d \div 2) \div d)

\* floor(a * b / d) without forming a * b (a, b >= 0, d > 0)
MulDiv(a, b, d) == (a \div d) * b + ((a % d) * b) \div d

Last0(f) == f[Cardinality(DOMAIN f) - 1]

\* ------------------------------------------------------------------- state
VARIABLES
    pc,         \* position of the running operation
    assigned,   \* the locals of the running solver that have been bound
    \* --- objects shared by the solvers
    soil,       \* SoilParams object: Cy0, clay, depth, Ceq, iom
    k,          \* RothC.k = get_rmf() * K_BASE
    FIRE,       \* emit.FIRE, the module-level fire vector
    climate,    \* Climate object: rain, evap (mm a month, in 0.01 mm), temp (deg C)
    cover,      \* RothC.cover: 1 for a month with soil cover, else 0
    \* --- RothC.get_rmf locals and result
    m, month_i, accTsmd, tsmd, b,
    rmf,        \* what get_rmf returned, in 1/1000
    \* --- the project: the two scenarios and the soil model runs made for them
    baseline, intervention,
    run,        \* the ForwardRothC object Emissions.run_soil_model is building
    log,        \* the messages written through logging: "warning", "error"
    eqRoth,     \* Emissions.eqRoth: the InverseRothC object made before, <<>> if none
    \* --- InverseRothC
    fsolveOut,  \* optimize.fsolve's result (4 pools) for each grid candidate
    g,          \* position of the inverse solver's loop in the grid (1-based)
    prevDiff,   \* InverseRothC.solver locals
    inputC,
    prevC,
    prevCtot,
    eqC,        \* InverseRothC.eqC
    eqInput,    \* InverseRothC.inputC (the solver's eqInput)
    \* --- ForwardRothC: the arguments of the run
    Ci, crop, tree, litter, solveToValue,
    \* --- ForwardRothC.solver locals
    inputs, x, C, i, Ctemp, j,
    prevDiff_outer, prevDiff_inner, c_inner, c_outer, closest_i, closest_j,
    \* --- ForwardRothC fields (the solver's results)
    SOC, inputsOut, Cy0Year

rmfVars == <<m, month_i, accTsmd, tsmd, b, rmf>>
scenVars == <<baseline, intervention, run, eqRoth>>
\* what no solver step writes
envVars == <<soil, k, FIRE, climate, cover, log, rmfVars, scenVars>>
invVars == <<fsolveOut, g, prevDiff, inputC, prevC, prevCtot, eqC, eqInput>>
argVars == <<Ci, crop, tree, litter, solveToValue>>
locVars == <<inputs, x, C, i, Ctemp, j, prevDiff_outer, prevDiff_inner,
             c_inner, c_outer, closest_i, closest_j>>
outVars == <<SOC, inputsOut, Cy0Year>>
fwdVars == <<argVars, locVars, outVars>>
vars == <<pc, assigned, envVars, invVars, fwdVars>>

\* ------------------------------------------------------------------- soil
\* 0.049 * Ceq ** 1.139 at the equilibrium stocks of the soils modelled
\* (Ceq and the result in 0.001 t C/ha)
IomOf(Ceq) ==
    CASE Ceq = 6250 -> 395
      [] Ceq = 20000 -> 1486
      [] Ceq = 30000 -> 2359
      [] Ceq = 32500 -> 2584
      [] Ceq = 1250000 -> 165035
      [] Ceq = 2500000 -> 363454

SoilParams(Cy0, clay) ==
    LET Ceq == (5 * Cy0) \div 4
    IN  [Cy0 |-> Cy0, clay |-> clay, depth |-> 30, Ceq |-> Ceq, iom |-> IomOf(Ceq)]

\* _sanitize_params: unusual values are logged, nothing else
Unusual(Cy0, clay) == clay < 0 \/ clay > 100 \/ Cy0 < 0 \/ Cy0 > 10000000

\* SoilParams(soil_params): soil holds the dict with the keys Cy0 and clay
\* before, the object after
NewSoilParams ==
    /\ pc = "soil_init"
    /\ log' = IF Unusual(soil.Cy0, soil.clay) THEN log \cup {"warning"} ELSE log
    /\ soil' = SoilParams(soil.Cy0, soil.clay)
    /\ pc' = "rmf_start"
    /\ UNCHANGED <<assigned, k, FIRE, climate, cover, rmfVars, scenVars, invVars, fwdVars>>

\* ---------------------------------------------------------- pool dynamics
\* RothC.K_BASE = [10.0, 0.3, 0.66, 0.02], in 1/10000 per year
K_BASE == <<100000, 3000, 6600, 200>>

\* self.k = self.get_rmf() * RothC.K_BASE (rmf in 1/1000)
KOf(r) == [p \in 1..4 |-> (r * K_BASE[p]) \div 1000]

\* ------------------------------------------------ rate modifying factor
\* deficit = rain - evap * f, f = num/4 (f = 1, and 0.75 for "rain - pet")
Deficit(num) == [n \in 0..(Months - 1) |-> climate.rain[n] - (climate.evap[n] * num) \div 4]

\* a[m] for a negative m: Python counts from the end
At(a, n) == a[IF n < 0 THEN n + Months ELSE n]

SetMin(S) == CHOOSE v \in S : \A w \in S : v <= w

\* _get_first_pos_def: any(i) is false for no index and for the index 0 alone
\* isSane: some month other than the first has a positive deficit
FirstPosDefSane(deficit) == \E n \in 1..(Months - 1) : deficit[n] > 0

FirstPosDef(deficit) ==
    LET pos == {n \in 0..(Months - 1) : deficit[n] > 0}
    IN  IF \E n \in pos : n # 0 THEN SetMin(pos) ELSE 0

\* _get_first_neg_def: the first month after m0, cyclically, with deficit < 0;
\* 12 steps on from m0 when there is none
FirstNegDef_mut(deficit, m0) ==
    LET after(n) == (m0 + n) % Months
        hits == {n \in 1..Months : deficit[after(n)] < 0}
    IN  IF hits = {} THEN [m |-> after(Months), rainAlwaysExceedsEvap |-> TRUE]
        ELSE [m |-> after(SetMin(hits) + 1), rainAlwaysExceedsEvap |-> FALSE]

FirstNegDef(deficit, m0) ==
    LET after(n) == (m0 + n) % Months
        hits == {n \in 1..Months : deficit[after(n)] < 0}
    IN  IF hits = {} THEN [m |-> after(Months), rainAlwaysExceedsEvap |-> TRUE]
        ELSE [m |-> after(SetMin(hits)), rainAlwaysExceedsEvap |-> FALSE]

\* max = -(20 + 1.3*cc - 0.01*cc**2) * (d/23.0), in 0.01 mm
MaxTsmd_mut(cc, d) == -RoundDiv((2000 + 130 * cc - 2 * cc * cc) * d, 23)

MaxTsmd(cc, d) == -RoundDiv((2000 + 130 * cc - cc * cc) * d, 23)

\* 0.556 * max
Limit556_mut(max) == RoundDiv(1556 * max, 1000)

Limit556(max) == RoundDiv(556 * max, 1000)

\* _get_acc_tsmd(smd, def_m, cover_m, max)
AccTsmd_mut(smd, def_m, cover_m, max) ==
    IF def_m > 0
       THEN IF smd + def_m > 0 THEN 0 ELSE smd + def_m
       ELSE IF cover_m = 1
               THEN IF smd + def_m < max THEN max ELSE smd + def_m
               ELSE IF 1000 * smd > 556 * max THEN smd
                    ELSE IF 1000 * (smd + def_m) < 556 * max THEN Limit556(max)
                         ELSE smd + def_m

AccTsmd(smd, def_m, cover_m, max) ==
    IF def_m > 0
       THEN IF smd + def_m > 0 THEN 0 ELSE smd + def_m
       ELSE IF cover_m = 1
               THEN IF smd + def_m < max THEN max ELSE smd + def_m
               ELSE IF 1000 * smd < 556 * max THEN smd
                    ELSE IF 1000 * (smd + def_m) < 556 * max THEN Limit556(max)
                         ELSE smd + def_m

\* 0.2 + 0.8*(max - accTsmd) / (0.556*max), in 1/1000 (0.8/0.556 = 200/139)
MoistureFactor_mut(acc, max) == 200 + RoundDiv(800 * (acc - max), -max)

MoistureFactor(acc, max) == 200 + RoundDiv(200000 * (acc - max), 139 * (-max))

\* 47.91 / (1.0 + np.exp(106.06 / (temp + 18.27))) at the temperatures of the
\* climates modelled, in 1/1000
TempFactor(T) ==
    CASE T = -10 -> 0
      [] T = 10 -> 1099
      [] T = 20 -> 2821
      [] T = 25 -> 3802

\* c[i] = 0.6 where cover == 1, else 1
CoverFactor(cv) == IF cv = 1 THEN 600 ELSE 1000

\* (a*b*c).mean() of three vectors in 1/1000
MeanOfProduct(av, bv, cv) ==
    LET prod(n) == RoundDiv(RoundDiv(av[n] * bv[n], 1000) * cv[n], 1000)
    IN  RoundDiv(SumSeq([n \in 1..Months |-> prod(n - 1)]), Months)

\* np.ones(12), in 1/1000
Ones_mut == [n \in 0..(Months - 1) |-> 200]

Ones == [n \in 0..(Months - 1) |-> 1000]
Zeros == [n \in 0..(Months - 1) |-> 0]

\* lines 66-84: the first month with a deficit; all of b is 1 and the method
\* returns b.mean() when no month has rain below evaporation
RmfStart ==
    /\ pc = "rmf_start"
    /\ LET deficit == Deficit(4)
           first == FirstNegDef(deficit, FirstPosDef(deficit))
       IN  /\ b' = Ones
           /\ log' = IF FirstPosDefSane(deficit) THEN log ELSE log \cup {"warning"}
           /\ IF first.rainAlwaysExceedsEvap
                 THEN /\ rmf' = RoundDiv(SumSeq([n \in 1..Months |-> Ones[n - 1]]), Months)
                      /\ k' = KOf(rmf')
                      /\ pc' = "rmf_done"
                      /\ UNCHANGED <<m, month_i, accTsmd, tsmd>>
                 ELSE /\ m' = first.m - 1
                      /\ accTsmd' = 0
                      /\ tsmd' = Zeros
                      /\ month_i' = 0
                      /\ pc' = "rmf_loop"
                      /\ UNCHANGED <<rmf, k>>
    /\ UNCHANGED <<soil, FIRE, climate, cover, scenVars, assigned, invVars, fwdVars>>

\* lines 86-100: one pass of "for i in range(12)"
RmfMonth ==
    /\ pc = "rmf_loop"
    /\ LET max == MaxTsmd(soil.clay, soil.depth)
           acc == AccTsmd(accTsmd, At(Deficit(3), m), At(cover, m), max)
           idx == IF m < 0 THEN m + Months ELSE m
       IN  /\ accTsmd' = acc
           /\ IF 1000 * acc >= 444 * max
                 THEN /\ b' = [b EXCEPT ![idx] = 1000]
                      /\ tsmd' = [tsmd EXCEPT ![idx] = acc]
                      /\ m' = IF m + 1 > Months - 1 THEN 0 ELSE m + 1
                      /\ month_i' = month_i + 1
                      /\ pc' = IF month_i + 1 < Months THEN "rmf_loop" ELSE "rmf_factors"
                 ELSE IF acc >= max
                         THEN /\ b' = [b EXCEPT ![idx] = MoistureFactor(acc, max)]
                              /\ tsmd' = [tsmd EXCEPT ![idx] = acc]
                              /\ m' = IF m + 1 > Months - 1 THEN 0 ELSE m + 1
                              /\ month_i' = month_i + 1
                              /\ pc' = IF month_i + 1 < Months THEN "rmf_loop" ELSE "rmf_factors"
                         ELSE /\ pc' = "rmf_exit"
                              /\ UNCHANGED <<b, tsmd, m, month_i>>
           /\ log' = IF acc < max THEN log \cup {"error"} ELSE log
    /\ UNCHANGED <<soil, k, FIRE, climate, cover, rmf, scenVars, assigned, invVars, fwdVars>>

\* lines 102-112: the temperature and cover factors and the yearly mean.
\* "for i in np.where(temp > -5.0)" binds i to the array of all the months
\* above -5 and assigns the 12 values of the right-hand side to a[i]: a
\* ValueError unless all 12 months are above -5.
RmfReturn ==
    /\ pc = "rmf_factors"
    /\ IF \A n \in 0..(Months - 1) : climate.temp[n] > -5
          THEN LET a == [n \in 0..(Months - 1) |-> TempFactor(climate.temp[n])]
                   c == [n \in 0..(Months - 1) |-> CoverFactor(cover[n])]
               IN  /\ rmf' = MeanOfProduct(a, b, c)
                   /\ k' = KOf(rmf')
                   /\ pc' = "rmf_done"
          ELSE pc' = "rmf_error" /\ UNCHANGED <<rmf, k>>
    /\ UNCHANGED <<soil, FIRE, climate, cover, log, m, month_i, accTsmd, tsmd, b,
                   scenVars, assigned, invVars, fwdVars>>

\* RothC.dC_dt: the right-hand sides, in 1/10000 of a unit of carbon per year
dC_dt_mut(Cv, xv, kv, input) ==
    LET bioHumIn == Cv[1] * kv[1] + Cv[2] * kv[2] + Cv[3] * kv[3] + Cv[4] * kv[4]
    IN  << input * xv[1] - Cv[1] * kv[1],
           (input + 1000) * xv[2] - Cv[2] * kv[2],
           MulDiv(bioHumIn, xv[3], 10000) - Cv[3] * kv[3],
           MulDiv(bioHumIn, xv[4], 10000) - Cv[4] * kv[4] >>

dC_dt(Cv, xv, kv, input) ==
    LET bioHumIn == Cv[1] * kv[1] + Cv[2] * kv[2] + Cv[3] * kv[3] + Cv[4] * kv[4]
    IN  << input * xv[1] - Cv[1] * kv[1],
           input * xv[2] - Cv[2] * kv[2],
           MulDiv(bioHumIn, xv[3], 10000) - Cv[3] * kv[3],
           MulDiv(bioHumIn, xv[4], 10000) - Cv[4] * kv[4] >>

\* ------------------------------------------------------------- partitions
\* 1 - p2 = 1 / (z + 1), z = 1.67 * (1.85 + 1.6 * exp(-0.0786 * clay)), in
\* 1/1000000, at the clay contents of the soils modelled
OneMinusP2(clay) ==
    CASE clay = 0 -> 147896
      [] clay = 30 -> 230293
      [] clay = 100 -> 244467

\* p3 = 0.46: x_BIO = p3 * (1 - p2) and x_HUM = (1 - p2) * (1 - p3)
XBio(clay) == RoundDiv(46 * OneMinusP2(clay), 10000)

XHum_mut(clay) == 0 - XBio(clay)

XHum(clay) == RoundDiv(54 * OneMinusP2(clay), 10000)

\* InverseRothC.get_partitions: p1 = 0.2, no crops at equilibrium
InvPartitions(clay) == <<2000, 10000 - 2000, XBio(clay), XHum(clay)>>

\* ForwardRothC.get_partitions, one year: the row of normInput and p1
P1Of_mut(row) ==
    LET s == row[1] + row[2]
    IN  IF Abs(s) < 1 THEN 0
        ELSE (2000 * row[1] + 5900 * row[2]) \div s

P1Of(row) ==
    LET s == row[1] + row[2]
    IN  IF Abs(s) < 1 THEN 0
        ELSE (5900 * row[1] + 2000 * row[2]) \div s

\* ForwardRothC.get_partitions: one partition vector for each year
FwdPartitions_mut(inp, clay) ==
    [y \in 0..(N_YEARS - 1) |->
        <<0 - P1Of(inp[y]), 0 - (10000 - P1Of(inp[y])), XBio(clay), XHum(clay)>>]

FwdPartitions(inp, clay) ==
    [y \in 0..(N_YEARS - 1) |->
        <<P1Of(inp[y]), 10000 - P1Of(inp[y]), XBio(clay), XHum(clay)>>]

\* optimize.fsolve(self.dC_dt, C0, args=(t, x, self.k, input)) when it
\* converges: the root of dC_dt, to the nearest unit
fsolve(xv, kv, input) ==
    LET B == RoundDiv(input * 10000, 10000 - xv[3] - xv[4])
    IN  << RoundDiv(input * xv[1], kv[1]),
           RoundDiv(input * xv[2], kv[2]),
           RoundDiv(B * xv[3], kv[3]),
           RoundDiv(B * xv[4], kv[4]) >>

\* ---------------------------------------------------------- inverse solver
\* the g-th candidate of np.arange(0.01, 10, 0.001), in 0.001 t C/ha
GridInput(n) == GridStart + (n - 1) * GridStep

\* the candidates the loop can reach
Grid == {n \in 1..GridLen : GridInput(n) < GridStop}

\* currDiff of candidate i: |C.sum() + iom - Ceq|
CurrDiff(n) == Abs(SumSeq(fsolveOut[n]) + soil.iom - soil.Ceq)

\* if currDiff < prevDiff
Improves(currDiff, prev) == currDiff < prev

\* if prevDiff < currDiff: break
GettingWorse_mut(prev, currDiff) == prev <= currDiff

GettingWorse(prev, currDiff) == prev < currDiff

\* one pass of "for input in np.arange(0.01, 10, 0.001)"
InvIterate ==
    /\ pc = "inv_loop"
    /\ LET Cg == fsolveOut[g]
           Ctot == SumSeq(Cg) + soil.iom
           currDiff == Abs(Ctot - soil.Ceq)
           better == Improves(currDiff, prevDiff)
           pd == IF better THEN currDiff ELSE prevDiff
       IN  /\ prevDiff' = pd
           /\ inputC' = IF better THEN GridInput(g) ELSE inputC
           /\ prevC' = IF better THEN Cg ELSE prevC
           /\ prevCtot' = IF better THEN Ctot ELSE prevCtot
           /\ assigned' = IF better THEN assigned \cup {"inputC", "prevC", "prevCtot"}
                                    ELSE assigned
           /\ IF GettingWorse(pd, currDiff) \/ g + 1 \notin Grid
                 THEN pc' = "inv_after" /\ g' = g
                 ELSE pc' = "inv_loop" /\ g' = g + 1
    /\ UNCHANGED <<envVars, fwdVars, fsolveOut, eqC, eqInput>>

\* lines 233-239, after RothC.__init__ set k: the start of a solver call.  The
\* locals of the call are new: none is bound, prevDiff is 1000.0
InvStart_mut ==
    /\ pc = "rmf_done"
    /\ pc' = "inv_loop"
    /\ g' = 1
    /\ prevDiff' = prevDiff
    /\ assigned' = {}
    /\ UNCHANGED <<envVars, fwdVars, fsolveOut, inputC, prevC, prevCtot, eqC, eqInput>>

InvStart ==
    /\ pc = "rmf_done"
    /\ pc' = "inv_loop"
    /\ g' = 1
    /\ prevDiff' = PrevDiffInit
    /\ assigned' = {}
    /\ UNCHANGED <<envVars, fwdVars, fsolveOut, inputC, prevC, prevCtot, eqC, eqInput>>

\* eqC = prevC; eqInput = inputC; return.  Reading a local that no pass of the
\* loop bound raises UnboundLocalError.
InvReturn ==
    /\ pc = "inv_after"
    /\ IF {"prevC", "inputC"} \subseteq assigned
          THEN pc' = "inv_done" /\ eqC' = prevC /\ eqInput' = inputC
          ELSE pc' = "inv_error" /\ UNCHANGED <<eqC, eqInput>>
    /\ UNCHANGED <<envVars, fwdVars, fsolveOut, g, prevDiff, inputC, prevC, prevCtot, assigned>>

\* ------------------------------------------------------------------- fire
\* cf['crop'] = 0.8: what is left of the above-ground input of a fire year is
\* (1 - 0.8) of it
Burn(v) == (v * 2) \div 10

\* sum of the 'above' (or 'below') carbon output of a list of objects
\* "np.zeros(cfg.N_YEARS) += series": NumPy adds a series of N_YEARS elements
\* element by element, stretches a series of one element over all the years,
\* and raises ValueError for any other length
SeriesLen(series) == Cardinality(DOMAIN series)
Broadcasts(series) == SeriesLen(series) \in {1, N_YEARS}
SeriesAt(series, y) == IF SeriesLen(series) = 1 THEN series[0] ELSE series[y]

\* every series reduceFromFire adds up can be added to its array
AllBroadcast(crops, trees, litters) ==
    \A objs \in {crops, trees, litters} : \A n \in 1..Len(objs) :
        Broadcasts(objs[n].above) /\ Broadcasts(objs[n].below)

RECURSIVE SumOutputs(_, _, _)
SumOutputs(objs, part, y) ==
    IF objs = <<>> THEN 0
    ELSE SeriesAt(Head(objs)[part], y) + SumOutputs(Tail(objs), part, y)

\* the body of emit.reduceFromFire: the (crop, tree) input of each year, the
\* above-ground inputs burned in the years where the fire vector is 1
Reduced(fire, crops, trees, litters) ==
    [y \in 0..(N_YEARS - 1) |->
        LET cropAbove == SumOutputs(crops, "above", y)
            treeAbove == SumOutputs(trees, "above", y) + SumOutputs(litters, "above", y)
            cropBelow == SumOutputs(crops, "below", y)
            treeBelow == SumOutputs(trees, "below", y) + SumOutputs(litters, "below", y)
        IN  IF fire[y] = 1
               THEN <<Burn(cropAbove) + cropBelow, Burn(treeAbove) + treeBelow>>
               ELSE <<cropAbove + cropBelow, treeAbove + treeBelow>>]

\* emit.reduceFromFire(crop, tree, litter) reads the module-level FIRE
reduceFromFire(crops, trees, litters) == Reduced(FIRE, crops, trees, litters)

\* ---------------------------------------------------------- forward solver
\* one fixed step of length 1/len(t) of the system dC_dt
OdeStep(c, xv, kv, input) ==
    LET r == dC_dt(c, xv, kv, input)
    IN  << c[1] + RoundDiv(r[1], 10000 * TSteps),
           c[2] + RoundDiv(r[2], 10000 * TSteps),
           c[3] + RoundDiv(r[3], 10000 * TSteps),
           c[4] + RoundDiv(r[4], 10000 * TSteps) >>

RECURSIVE OdeRows(_, _, _, _)
OdeRows(rows, xv, kv, input) ==
    IF Len(rows) >= TSteps THEN rows
    ELSE OdeRows(Append(rows, OdeStep(rows[Len(rows)], xv, kv, input)), xv, kv, input)

\* integrate.odeint(self.dC_dt, C0, t, args): one row for each element of
\* t = np.arange(0, 1, 0.001), the first of them C0; a fixed step per row
odeint(C0, xv, kv, input) ==
    LET rows == OdeRows(<<C0>>, xv, kv, input)
    IN  [n \in 0..(TSteps - 1) |-> rows[n + 1]]

\* c.sum() + self.soil.iom, and its distance to Cy0
StockOf(c) == SumSeq(c) + soil.iom
DistToCy0(c) == Abs(StockOf(c) - soil.Cy0)

\* if currDiff - prevDiff_inner < 0.00000001
InnerCloser_mut(currDiff, prev) == currDiff - prev < 0

InnerCloser(currDiff, prev) == currDiff - prev < TolCeil

\* np.zeros((cfg.N_YEARS+1, 4))
ZeroRows_mut == [y \in 0..(N_YEARS - 1) |-> <<0, 0, 0, 0>>]

ZeroRows == [y \in 0..N_YEARS |-> <<0, 0, 0, 0>>]

\* a[0:n]
Slice_mut(a, n) == [y \in 0..n |-> a[y]]

Slice(a, n) == [y \in 0..(n - 1) |-> a[y]]

\* inputs[0:len(C[:,0])-1]
TruncInputs_mut(inp, Cn) == inp

TruncInputs(inp, Cn) == Slice(inp, Cardinality(DOMAIN Cn) - 1)

\* float(closest_j) / len(t), in 1/1000 of a year
FractionOfYear_mut(cj, ci) == (ci - 1) * 1000 + (cj * 1000) \div TSteps

FractionOfYear(cj, ci) == (cj * 1000) \div TSteps

\* lines 366-384: the inputs, the partitions and the start values; the
\* ValueError of reduceFromFire leaves the solver at its first line
FwdStart ==
    /\ pc = "fwd_start"
    /\ IF AllBroadcast(crop, tree, litter)
          THEN /\ LET inp == reduceFromFire(crop, tree, litter)
                  IN  /\ inputs' = inp
                      /\ x' = FwdPartitions(inp, soil.clay)
               /\ C' = [ZeroRows EXCEPT ![0] = Ci]
               /\ prevDiff_outer' = IF solveToValue THEN PrevDiffInit ELSE prevDiff_outer
               /\ prevDiff_inner' = IF solveToValue THEN PrevDiffInit ELSE prevDiff_inner
               /\ i' = 1
               /\ pc' = IF N_YEARS >= 1 THEN "fwd_year" ELSE "fwd_after"
          ELSE /\ pc' = "fwd_error"
               /\ UNCHANGED <<inputs, x, C, prevDiff_outer, prevDiff_inner, i>>
    /\ assigned' = {}
    /\ UNCHANGED <<envVars, invVars, argVars, outVars,
                   Ctemp, j, c_inner, c_outer, closest_i, closest_j>>

\* lines 393-397 and 401: the pools of year i; then the search of the year's
\* rows, or the next year
FwdYear ==
    /\ pc = "fwd_year"
    /\ LET rows == odeint(C[i - 1], x[i - 1], k, inputs[i - 1][1] + inputs[i - 1][2])
       IN  /\ Ctemp' = rows
           /\ C' = [C EXCEPT ![i] = Last0(rows)]
    /\ IF solveToValue
          THEN pc' = "fwd_inner" /\ j' = -1 /\ i' = i
          ELSE /\ j' = j
               /\ IF i < N_YEARS THEN pc' = "fwd_year" /\ i' = i + 1
                                 ELSE pc' = "fwd_after" /\ i' = i
    /\ UNCHANGED <<envVars, invVars, argVars, outVars, assigned, inputs, x,
                   prevDiff_outer, prevDiff_inner, c_inner, c_outer, closest_i, closest_j>>

\* lines 402-412: one pass of "for c in Ctemp"
FwdInner ==
    /\ pc = "fwd_inner"
    /\ LET jj == j + 1
           c == Ctemp[jj]
           currDiff == DistToCy0(c)
       IN  /\ j' = jj
           /\ IF InnerCloser(currDiff, prevDiff_inner)
                 THEN /\ prevDiff_inner' = currDiff
                      /\ c_inner' = c
                      /\ closest_j' = jj
                      /\ assigned' = assigned \cup {"c_inner", "closest_j"}
                      /\ pc' = IF jj + 1 < TSteps THEN "fwd_inner" ELSE "fwd_outer"
                 ELSE /\ pc' = "fwd_outer"
                      /\ UNCHANGED <<prevDiff_inner, c_inner, closest_j, assigned>>
    /\ UNCHANGED <<envVars, invVars, argVars, outVars, inputs, x, C, i, Ctemp,
                   prevDiff_outer, c_outer, closest_i>>

\* lines 414-419: the year improved on the best so far, or the year loop ends
\* (prevDiff_inner is below its start value only once c_inner is bound)
FwdOuter ==
    /\ pc = "fwd_outer"
    /\ IF prevDiff_inner < prevDiff_outer
          THEN /\ prevDiff_outer' = prevDiff_inner
               /\ c_outer' = c_inner
               /\ closest_i' = i
               /\ assigned' = assigned \cup {"c_outer", "closest_i"}
               /\ IF i < N_YEARS THEN pc' = "fwd_year" /\ i' = i + 1
                                 ELSE pc' = "fwd_after" /\ i' = i
          ELSE /\ pc' = "fwd_after"
               /\ UNCHANGED <<prevDiff_outer, c_outer, closest_i, assigned, i>>
    /\ UNCHANGED <<envVars, invVars, argVars, outVars, inputs, x, C, Ctemp, j,
                   prevDiff_inner, c_inner, closest_j>>

\* lines 421-427: the results.  A solve-to-value run reads closest_i, c_outer
\* and closest_j: unbound, they raise UnboundLocalError.
FwdReturn_mut ==
    /\ pc = "fwd_after"
    /\ IF solveToValue
          THEN IF {"closest_i", "c_outer", "closest_j"} \subseteq assigned
                  THEN LET Cn == Slice([C EXCEPT ![closest_i] = c_outer], closest_i + 1)
                       IN  /\ SOC' = Cn
                           /\ Cy0Year' = FractionOfYear(closest_j, closest_i)
                           /\ inputsOut' = TruncInputs(inputs, Cn)
                           /\ pc' = "fwd_done"
                  ELSE pc' = "fwd_error" /\ UNCHANGED outVars
          ELSE /\ SOC' = C
               /\ Cy0Year' = 0
               /\ inputsOut' = inputs
               /\ pc' = "fwd_done"
    /\ Ci' = Last0(C)
    /\ UNCHANGED <<envVars, invVars, crop, tree, litter, solveToValue, locVars, assigned>>

FwdReturn ==
    /\ pc = "fwd_after"
    /\ IF solveToValue
          THEN IF {"closest_i", "c_outer", "closest_j"} \subseteq assigned
                  THEN LET Cn == Slice([C EXCEPT ![closest_i] = c_outer], closest_i + 1)
                       IN  /\ SOC' = Cn
                           /\ Cy0Year' = FractionOfYear(closest_j, closest_i)
                           /\ inputsOut' = TruncInputs(inputs, Cn)
                           /\ pc' = "fwd_done"
                  ELSE pc' = "fwd_error" /\ UNCHANGED outVars
          ELSE /\ SOC' = C
               /\ Cy0Year' = 0
               /\ inputsOut' = inputs
               /\ pc' = "fwd_done"
    /\ UNCHANGED <<envVars, invVars, argVars, locVars, assigned>>

\* ------------------------------------------------------------ the runs
\* the solver locals and results before a solver has run
InvIdle ==
    /\ fsolveOut = <<>> /\ g = 1 /\ prevDiff = PrevDiffInit
    /\ inputC = 0 /\ prevC = <<>> /\ prevCtot = 0 /\ eqC = <<>> /\ eqInput = 0

FwdLocalsIdle ==
    /\ inputs = <<>> /\ x = <<>> /\ C = <<>> /\ i = 0 /\ Ctemp = <<>> /\ j = 0
    /\ prevDiff_outer = 0 /\ prevDiff_inner = 0 /\ c_inner = <<>> /\ c_outer = <<>>
    /\ closest_i = 0 /\ closest_j = 0
    /\ SOC = <<>> /\ inputsOut = <<>> /\ Cy0Year = 0

FwdIdle ==
    /\ Ci = <<>> /\ crop = <<>> /\ tree = <<>> /\ litter = <<>> /\ solveToValue = FALSE
    /\ FwdLocalsIdle

\* get_rmf has not run; no project has been made
RmfIdle ==
    /\ m = 0 /\ month_i = 0 /\ accTsmd = 0 /\ tsmd = <<>> /\ b = <<>>

NoScenario == [built |-> FALSE]
ScenIdle == baseline = NoScenario /\ intervention = NoScenario /\ run = "none"

\* monthly series with the same value in every month
AllMonths(v) == [n \in 0..(Months - 1) |-> v]
\* monthly series with one value from April to September and another outside
Seasonal(inside, outside) == [n \in 0..(Months - 1) |-> IF n \in 3..8 THEN inside ELSE outside]

\* a climate with rain above evaporation in every month: get_rmf returns 1
WetClimate == [rain |-> AllMonths(10000), evap |-> AllMonths(4000), temp |-> AllMonths(25)]
WetRmf == 1000

NoFire == [y \in 0..(N_YEARS - 1) |-> 0]
FireInYear(f) == [y \in 0..(N_YEARS - 1) |-> IF y = f THEN 1 ELSE 0]

\* pool vectors the root finder may hand back (DPM, RPM, BIO, HUM)
SolSet == { <<40, 12960, 2000, 60000>>, <<40, 12960, 2000, 69965>>, <<40, 12960, 2000, 80000>> }

Cy0Set == {16000, 1000000}

\* an inverse run: fsolve hands back the root of dC_dt for the candidate or,
\* when it does not converge, the iterate it stopped at
InvInit ==
    /\ pc = "inv_loop"
    /\ soil \in {SoilParams(c, 30) : c \in Cy0Set}
    /\ climate = WetClimate /\ cover = AllMonths(1)
    /\ rmf = WetRmf /\ k = KOf(rmf) /\ RmfIdle
    /\ ScenIdle /\ eqRoth = <<>>
    /\ FIRE = NoFire /\ log = {}
    /\ fsolveOut \in [1..GridLen -> SolSet]
    /\ g = 1
    /\ prevDiff = PrevDiffInit
    /\ inputC = 0
    /\ prevC = <<>>
    /\ prevCtot = 0
    /\ assigned = {}
    /\ eqC = <<>>
    /\ eqInput = 0
    /\ FwdIdle

InvNext == InvIterate \/ InvReturn

SpecInv == InvInit /\ [][InvNext]_vars

\* ---- an inverse run over pools on both sides of the equilibrium stock, as
\* many of them as the grid is long
GridSolSet == {<<40, 12960, 2000, 1000 * h>> : h \in 0..GridLen}

InvGridInit ==
    /\ pc = "inv_loop"
    /\ soil \in {SoilParams(c, 30) : c \in Cy0Set}
    /\ climate = WetClimate /\ cover = AllMonths(1)
    /\ rmf = WetRmf /\ k = KOf(rmf) /\ RmfIdle
    /\ ScenIdle /\ eqRoth = <<>>
    /\ FIRE = NoFire /\ log = {}
    /\ fsolveOut \in [1..GridLen -> GridSolSet]
    /\ g = 1 /\ prevDiff = PrevDiffInit
    /\ inputC = 0 /\ prevC = <<>> /\ prevCtot = 0 /\ eqC = <<>> /\ eqInput = 0
    /\ assigned = {}
    /\ FwdIdle

SpecInvGrid == InvGridInit /\ [][InvNext]_vars

\* the crop and tree objects of a run: what each year receives
Kinds == {"none", "tree", "crop"}
CropObj(kinds) ==
    [above |-> [y \in 0..(N_YEARS - 1) |-> IF kinds[y] = "crop" THEN 5000 ELSE 0],
     below |-> [y \in 0..(N_YEARS - 1) |-> IF kinds[y] = "crop" THEN 1000 ELSE 0]]
TreeObj(kinds) ==
    [above |-> [y \in 0..(N_YEARS - 1) |-> IF kinds[y] = "tree" THEN 3000 ELSE 0],
     below |-> [y \in 0..(N_YEARS - 1) |-> IF kinds[y] = "tree" THEN 1000 ELSE 0]]
\* a tree object with the same input every year, all of it below ground
ConstTree(v) ==
    [above |-> [y \in 0..(N_YEARS - 1) |-> 0],
     below |-> [y \in 0..(N_YEARS - 1) |-> v]]

FwdCy0Set == {5000, 24000, 26000, 2000000}
FwdClaySet == {0, 30}
\* candidates of the inverse solver's grid
EqInputs == {GridInput(491), GridInput(1991)}
CiSet == { <<0, 0, 0, 0>>, fsolve(InvPartitions(30), KOf(WetRmf), GridInput(1991)) }

\* a forward run on any initial pools and inputs
FwdInitFree ==
    /\ soil \in {SoilParams(c, cc) : c \in FwdCy0Set, cc \in FwdClaySet}
    /\ FIRE \in {NoFire, FireInYear(0)}
    /\ Ci \in CiSet
    /\ \E kinds \in [0..(N_YEARS - 1) -> Kinds] :
          crop = <<CropObj(kinds)>> /\ tree = <<TreeObj(kinds)>>
    /\ litter = <<>>

\* a forward run seeded with the equilibrium pools of a grid candidate and
\* fed that candidate's input every year, as woody input
FwdInitEq ==
    /\ soil \in {SoilParams(c, 30) : c \in FwdCy0Set}
    /\ FIRE = NoFire
    /\ \E inC \in EqInputs :
          /\ Ci = fsolve(InvPartitions(soil.clay), KOf(WetRmf), inC)
          /\ tree = <<ConstTree(inC)>>
    /\ crop = <<>>
    /\ litter = <<>>

FwdInit ==
    /\ pc = "fwd_start"
    /\ assigned = {} /\ log = {}
    /\ climate = WetClimate /\ cover = AllMonths(0)
    /\ rmf = WetRmf /\ k = KOf(rmf) /\ RmfIdle
    /\ ScenIdle /\ eqRoth = <<>>
    /\ solveToValue \in BOOLEAN
    /\ (FwdInitFree \/ FwdInitEq)
    /\ FwdLocalsIdle
    /\ InvIdle

FwdNext == FwdStart \/ FwdYear \/ FwdInner \/ FwdOuter \/ FwdReturn

SpecFwd == FwdInit /\ [][FwdNext]_vars

\* ---- forward runs on input series of any length
SeriesLens == {1, N_YEARS - 1, N_YEARS, N_YEARS + 1}

\* an object whose output series has len elements
SeriesObj(len, above, below) ==
    [above |-> [y \in 0..(len - 1) |-> above + 1000 * y],
     below |-> [y \in 0..(len - 1) |-> below]]

SeriesInit ==
    /\ pc = "fwd_start"
    /\ assigned = {} /\ log = {}
    /\ climate = WetClimate /\ cover = AllMonths(0)
    /\ rmf = WetRmf /\ k = KOf(rmf) /\ RmfIdle
    /\ ScenIdle /\ eqRoth = <<>>
    /\ solveToValue \in BOOLEAN
    /\ soil \in {SoilParams(c, 30) : c \in {5000, 24000}}
    /\ FIRE \in {NoFire, FireInYear(0)}
    /\ Ci \in CiSet
    /\ \E l1, l2 \in SeriesLens :
          /\ crop = <<SeriesObj(l1, 5000, 1000)>>
          /\ tree = <<SeriesObj(l2, 3000, 1000)>>
    /\ litter = <<>>
    /\ FwdLocalsIdle
    /\ InvIdle

SpecSeries == SeriesInit /\ [][FwdNext]_vars

\* ---- RothC.__init__: the rate modifying factor of a climate and a cover
RainSet == {AllMonths(10000), Seasonal(2000, 12000), AllMonths(1000), AllMonths(4000)}
EvapSet == {AllMonths(4000), AllMonths(8000)}
TempSet == {AllMonths(25), Seasonal(20, 10), [n \in 0..(Months - 1) |-> IF n \in {0, 11} THEN -10 ELSE 10]}
CoverSet == {AllMonths(1), AllMonths(0), Seasonal(1, 0)}

\* clay in percent; a value outside [0, 100] only draws a warning from
\* SoilParams, and makes max positive
RmfClaySet == {0, 30, 200}

RmfInit ==
    /\ pc = "soil_init"
    /\ assigned = {}
    /\ soil \in [Cy0 : {16000}, clay : RmfClaySet]
    /\ climate \in [rain : RainSet, evap : EvapSet, temp : TempSet]
    /\ cover \in CoverSet
    /\ k = <<>> /\ rmf = 0 /\ RmfIdle
    /\ FIRE = NoFire /\ log = {}
    /\ ScenIdle /\ eqRoth = <<>>
    /\ InvIdle
    /\ FwdIdle

RmfNext == NewSoilParams \/ RmfStart \/ RmfMonth \/ RmfReturn

SpecRmf == RmfInit /\ [][RmfNext]_vars

\* ---- RothC.__init__ over every whole percentage of clay SoilParams takes
\* without a warning
CapClaySet == 0..100

\* rain below evaporation in the months 3..8, in every month, in January and
\* February only, and in every month but January
CapRainSet ==
    {Seasonal(2000, 12000), AllMonths(1000),
     [n \in 0..(Months - 1) |-> IF n \in {0, 1} THEN 2000 ELSE 12000],
     [n \in 0..(Months - 1) |-> IF n = 0 THEN 12000 ELSE 2000]}

CapInit ==
    /\ pc = "soil_init"
    /\ assigned = {}
    /\ soil \in [Cy0 : {16000}, clay : CapClaySet]
    /\ climate \in [rain : CapRainSet, evap : {AllMonths(8000)}, temp : {AllMonths(25)}]
    /\ cover = Seasonal(1, 0)
    /\ k = <<>> /\ rmf = 0 /\ RmfIdle
    /\ FIRE = NoFire /\ log = {}
    /\ ScenIdle /\ eqRoth = <<>>
    /\ InvIdle
    /\ FwdIdle

SpecCap == CapInit /\ [][RmfNext]_vars

\* ---- InverseRothC(soil, climate) constructed twice on the same arguments
InvClimates ==
    {WetClimate, [rain |-> Seasonal(2000, 12000), evap |-> AllMonths(4000), temp |-> AllMonths(25)]}

\* self.eqRoth = InverseRothC(...) a second time: the object made first is
\* kept aside and the constructor runs again
InvAgain ==
    /\ pc = "inv_done" /\ eqRoth = <<>>
    /\ eqRoth' = [eqC |-> eqC, inputC |-> eqInput]
    /\ pc' = "rmf_start"
    /\ UNCHANGED <<assigned, soil, k, FIRE, climate, cover, log, rmfVars, baseline, intervention, run,
                   invVars, fwdVars>>

\* fsolve is a function of its arguments: the same candidate under the same
\* k and partitions gets the same pools in both constructions
InvTwiceInit ==
    /\ pc = "rmf_start"
    /\ assigned = {}
    /\ soil \in {SoilParams(c, 30) : c \in Cy0Set}
    /\ climate \in InvClimates /\ cover = AllMonths(1)
    /\ k = <<>> /\ rmf = 0 /\ RmfIdle
    /\ FIRE = NoFire /\ log = {}
    /\ ScenIdle /\ eqRoth = <<>>
    /\ fsolveOut \in [1..GridLen -> SolSet]
    /\ g = 1 /\ prevDiff = PrevDiffInit /\ inputC = 0 /\ prevC = <<>> /\ prevCtot = 0
    /\ eqC = <<>> /\ eqInput = 0
    /\ FwdIdle

InvTwiceNext ==
    \/ RmfStart \/ RmfMonth \/ RmfReturn
    \/ InvStart \/ InvIterate \/ InvReturn \/ InvAgain

SpecInvTwice == InvTwiceInit /\ [][InvTwiceNext]_vars

\* ---- a project: two scenarios and Emissions.run_soil_model
Scenarios == {"baseline", "intervention"}
FireSet == {NoFire, FireInYear(0), FireInYear(1)}
\* every year the same kind of input
ScenKinds == {[y \in 0..(N_YEARS - 1) |-> "crop"], [y \in 0..(N_YEARS - 1) |-> "tree"]}
ScenCy0Set == {24000, 26000}

\* ProjectModel.__init__ for one scenario: its Soil reads the soil and the
\* fire years from the dialog and stores the fire vector in emit.FIRE
NewProject(s) ==
    /\ pc = "scen_setup"
    /\ \E fire \in FireSet, kinds \in ScenKinds :
          LET proj == [built |-> TRUE, fire |-> fire, soil_params |-> soil,
                       crops |-> <<CropObj(kinds)>>, trees |-> <<TreeObj(kinds)>>]
          IN  /\ IF s = "baseline"
                    THEN ~baseline.built /\ baseline' = proj /\ UNCHANGED intervention
                    ELSE ~intervention.built /\ intervention' = proj /\ UNCHANGED baseline
              /\ FIRE' = fire
    /\ UNCHANGED <<pc, assigned, soil, k, climate, cover, log, rmfVars, run, eqRoth, invVars, fwdVars>>

\* emit_model.py lines 79-88: y0roth, the baseline run to the start stock
RunY0roth ==
    /\ pc = "scen_setup" /\ baseline.built /\ intervention.built
    /\ run' = "y0roth"
    /\ soil' = baseline.soil_params
    /\ Ci' = eqRoth.eqC
    /\ crop' = baseline.crops /\ tree' = baseline.trees /\ litter' = <<>>
    /\ solveToValue' = TRUE
    /\ pc' = "fwd_start"
    /\ UNCHANGED <<assigned, k, FIRE, climate, cover, log, rmfVars, baseline, intervention, eqRoth,
                   invVars, locVars, outVars>>

\* emit_model.py lines 89-97: roth_base, the baseline run from y0roth.SOC[-1]
RunRothBase ==
    /\ pc = "fwd_done" /\ run = "y0roth"
    /\ run' = "roth_base"
    /\ soil' = intervention.soil_params
    /\ Ci' = Last0(SOC)
    /\ crop' = baseline.crops /\ tree' = baseline.trees /\ litter' = <<>>
    /\ solveToValue' = FALSE
    /\ pc' = "fwd_start"
    /\ UNCHANGED <<assigned, k, FIRE, climate, cover, log, rmfVars, baseline, intervention, eqRoth,
                   invVars, locVars, outVars>>

\* emit_model.py lines 98-106: roth_inter, the intervention run from the
\* same pools (Ci still holds y0roth.SOC[-1])
RunRothInter ==
    /\ pc = "fwd_done" /\ run = "roth_base"
    /\ run' = "roth_inter"
    /\ soil' = intervention.soil_params
    /\ Ci' = Ci
    /\ crop' = intervention.crops /\ tree' = intervention.trees /\ litter' = <<>>
    /\ solveToValue' = FALSE
    /\ pc' = "fwd_start"
    /\ UNCHANGED <<assigned, k, FIRE, climate, cover, log, rmfVars, baseline, intervention, eqRoth,
                   invVars, locVars, outVars>>

\* run_soil_model returns
RunSoilDone ==
    /\ pc = "fwd_done" /\ run = "roth_inter"
    /\ run' = "finished"
    /\ pc' = "scen_done"
    /\ UNCHANGED <<assigned, soil, k, FIRE, climate, cover, log, rmfVars, baseline, intervention, eqRoth,
                   invVars, fwdVars>>

\* the state after Emissions.__init__ ran InverseRothC, before the projects'
\* dialogs are read
ScenInit ==
    /\ pc = "scen_setup"
    /\ assigned = {"inputC", "prevC"}
    /\ soil \in {SoilParams(c, 30) : c \in ScenCy0Set}
    /\ climate = WetClimate /\ cover = AllMonths(0)
    /\ rmf = WetRmf /\ k = KOf(rmf) /\ RmfIdle
    /\ FIRE = NoFire /\ log = {}
    /\ ScenIdle
    /\ fsolveOut = <<>> /\ g = 1 /\ prevDiff = 0 /\ prevCtot = 0
    /\ \E inC \in EqInputs :
          /\ inputC = inC /\ eqInput = inC
          /\ prevC = fsolve(InvPartitions(soil.clay), k, inC) /\ eqC = prevC
          /\ eqRoth = [eqC |-> prevC, inputC |-> inC]
    /\ FwdIdle

ScenNext ==
    \/ \E s \in Scenarios : NewProject(s)
    \/ RunY0roth \/ RunRothBase \/ RunRothInter \/ RunSoilDone
    \/ FwdStart \/ FwdYear \/ FwdInner \/ FwdOuter \/ FwdReturn

SpecScen == ScenInit /\ [][ScenNext]_vars

\* ------------------------------------------------------------------ claims
InvReturned == pc = "inv_done"
InvEnded == pc \in {"inv_done", "inv_error"}

\* the error decreases strictly up to candidate best and increases strictly after
UnimodalAt(best) ==
    /\ \A n \in Grid : n < best => CurrDiff(n) > CurrDiff(n + 1)
    /\ \A n \in Grid : (n >= best /\ n + 1 \in Grid) => CurrDiff(n) < CurrDiff(n + 1)

\* C1: when the error over the grid is strictly decreasing then strictly
\* increasing and the first candidate's error is below 1000, the solver
\* returns (never raises), and what it returns is the candidate with the
\* smallest error and the pools fsolve computed for that candidate.
C1_ReturnsArgmin ==
    \A best \in Grid :
        (UnimodalAt(best) /\ CurrDiff(1) < PrevDiffInit /\ pc \in {"inv_after", "inv_done", "inv_error"}) =>
            /\ pc # "inv_error"
            /\ {"prevC", "inputC"} \subseteq assigned
            /\ inputC = GridInput(best) /\ prevC = fsolveOut[best]
            /\ InvReturned => (eqInput = GridInput(best) /\ eqC = fsolveOut[best])

\* a run with the smallest error strictly inside the grid has returned
C1_Witness ==
    /\ InvReturned
    /\ CurrDiff(1) < PrevDiffInit
    /\ \E best \in Grid : best > 1 /\ best + 1 \in Grid /\ UnimodalAt(best) /\ eqInput = GridInput(best)

NeverDecreases == \A n \in Grid : CurrDiff(n) >= CurrDiff(1)

FwdReturned == pc = "fwd_done"
NRows(f) == Cardinality(DOMAIN f)

\* the sub-step states of years 1..n in the order of simulated time,
\* recomputed from the arguments of the run; the row that opens a year (the
\* closing row of the year before) is counted once.  A sequence: its element
\* 1 is Ci, its element 1 + (y-1)*(len(t)-1) + n is row n of year y.
RECURSIVE FlatFrom(_, _, _)
FlatFrom(y, n, acc) ==
    IF y > n THEN acc
    ELSE LET rows == OdeRows(<<acc[Len(acc)]>>, x[y - 1], k, inputs[y - 1][1] + inputs[y - 1][2])
         IN  FlatFrom(y + 1, n, acc \o Tail(rows))
FlatRows(n) == FlatFrom(1, n, <<Ci>>)

FlatLen == i * (TSteps - 1)
\* in such a sequence: row n of year y, and the pools at the end of year y
RowOf(flat, y, n) == flat[1 + (y - 1) * (TSteps - 1) + n]
EndOf(flat, y) == flat[1 + y * (TSteps - 1)]

DistUnimodalAt(dist, best) ==
    /\ \A q \in 1..FlatLen : q < best => dist[q] > dist[q + 1]
    /\ \A q \in 1..FlatLen : q >= best => dist[q] < dist[q + 1]

\* C3: in a solve-to-value run whose distance to Cy0 along the sub-steps of
\* the simulated years decreases strictly and then increases strictly, the
\* last row of the returned trajectory is the sub-step state at the smallest
\* distance.
C3_LastRowIsClosest ==
    (FwdReturned /\ solveToValue) =>
        LET flat == FlatRows(i)
            dist == [q \in 1..(FlatLen + 1) |-> DistToCy0(flat[q])]
        IN  \A best \in 1..(FlatLen + 1) :
                DistUnimodalAt(dist, best) =>
                    /\ Last0(SOC) = flat[best]
                    /\ \A q \in 1..(FlatLen + 1) : DistToCy0(Last0(SOC)) <= dist[q]

\* the closest sub-step lies inside the second or a later year
C3_Witness ==
    /\ FwdReturned /\ solveToValue
    /\ LET flat == FlatRows(i)
           dist == [q \in 1..(FlatLen + 1) |-> DistToCy0(flat[q])]
       IN  \E best \in (TSteps + 2)..FlatLen :
               DistUnimodalAt(dist, best) /\ Last0(SOC) = flat[best]

\* C4: the inner loop tracks the closest point of the current year only, and
\* the year loop stops at a year only if none of that year's sub-steps
\* improves on the best of the years before it.
C4_PerYearSearch ==
    /\ (pc = "fwd_outer" /\ prevDiff_inner < PrevDiffInit) =>
          \E n \in 0..(TSteps - 1) : prevDiff_inner = DistToCy0(Ctemp[n])
    /\ (pc = "fwd_after" /\ solveToValue /\ "closest_i" \in assigned /\ closest_i < i) =>
          \A n \in 0..(TSteps - 1) : DistToCy0(Ctemp[n]) >= prevDiff_outer

\* the stock rises from sub-step to sub-step, from at or below the target
StockRises ==
    LET flat == FlatRows(i)
    IN  /\ StockOf(Ci) <= soil.Cy0
        /\ \A q \in 1..FlatLen : StockOf(flat[q]) < StockOf(flat[q + 1])

\* the last full year at whose end the stock is at or below the target
LastFullYear ==
    LET flat == FlatRows(i)
    IN  CHOOSE y \in 0..i :
            /\ StockOf(EndOf(flat, y)) <= soil.Cy0
            /\ \A z \in (y + 1)..i : StockOf(EndOf(flat, z)) > soil.Cy0

C6_FixedDurationShape ==
    (FwdReturned /\ ~solveToValue) =>
        /\ DOMAIN SOC = 0..N_YEARS
        /\ SOC[0] = Ci
        /\ \A y \in 0..N_YEARS : Len(SOC[y]) = 4
        /\ DOMAIN inputsOut = 0..(N_YEARS - 1)
        /\ \A y \in 0..(N_YEARS - 1) : Len(inputsOut[y]) = 2
        /\ Cy0Year = 0

C6_Witness ==
    /\ FwdReturned /\ ~solveToValue
    /\ Ci # <<0, 0, 0, 0>>
    /\ SOC[N_YEARS] # Ci

\* C7: a solve-to-value run returns closest_i+1 rows: Ci, the end-of-year
\* pools of the years before closest_i, and last the closest sub-step state
\* found in year closest_i; the inputs are the first closest_i input rows.
C7_TruncatedAtClosestYear ==
    (FwdReturned /\ solveToValue) =>
        /\ closest_i \in 1..N_YEARS
        /\ DOMAIN SOC = 0..closest_i
        /\ SOC[0] = Ci
        /\ \A y \in 1..(closest_i - 1) : SOC[y] = EndOf(FlatRows(closest_i), y)
        /\ SOC[closest_i] = c_outer
        /\ \E n \in 0..(TSteps - 1) :
              /\ c_outer = RowOf(FlatRows(closest_i), closest_i, n)
              /\ \A n2 \in 0..n :
                    DistToCy0(RowOf(FlatRows(closest_i), closest_i, n2)) >= DistToCy0(c_outer)
        /\ DOMAIN inputsOut = 0..(closest_i - 1)
        /\ \A y \in 0..(closest_i - 1) : inputsOut[y] = inputs[y]
        /\ NRows(inputsOut) = NRows(SOC) - 1

\* a run cut short in its second year, strictly inside the year
C7_Witness ==
    /\ FwdReturned /\ solveToValue
    /\ closest_i = 2 /\ closest_i < N_YEARS
    /\ c_outer # EndOf(FlatRows(2), 2) /\ c_outer # EndOf(FlatRows(2), 1)

\* ---- the partition vectors
PartitionsMade == pc \in {"fwd_year", "fwd_inner", "fwd_outer", "fwd_after", "fwd_done"}

\* C12 as stated: the equilibrium-mode vector and every yearly forward-mode
\* vector have four components that sum to 1.
C12_SumsToOne ==
    PartitionsMade =>
        /\ SumSeq(InvPartitions(soil.clay)) = 10000
        /\ \A y \in 0..(N_YEARS - 1) : Len(x[y]) = 4 /\ SumSeq(x[y]) = 10000

\* the two splits of a vector: DPM with RPM, BIO with HUM
InputSplit(xv) == xv[1] + xv[2]
DecaySplit(xv) == xv[3] + xv[4]

\* C12 as amended: a partition vector has four components made of two
\* splits; x_DPM + x_RPM = 1 (the split of the input) and x_BIO + x_HUM =
\* 1 - p2 (the part of the decay output that is not lost as CO2), strictly
\* between 0 and 1, so that the four sum to 2 - p2.
C12_TwoSplits ==
    PartitionsMade =>
        \A xv \in {InvPartitions(soil.clay)} \cup {x[y] : y \in 0..(N_YEARS - 1)} :
            /\ Len(xv) = 4
            /\ InputSplit(xv) = 10000
            /\ Abs(100 * DecaySplit(xv) - OneMinusP2(soil.clay)) <= 100
            /\ DecaySplit(xv) > 0 /\ DecaySplit(xv) < 10000

\* a run with a crop year and a tree year
C12_Witness ==
    /\ FwdReturned
    /\ \E y1, y2 \in 0..(N_YEARS - 1) : x[y1][1] = 5900 /\ x[y2][1] = 2000

\* C13: a year whose total input is (about) zero gets the pure-woody split,
\* x_DPM = 0.2 and x_RPM = 0.8.
C13_ZeroInputIsWoody ==
    PartitionsMade =>
        \A y \in 0..(N_YEARS - 1) :
            Abs(inputs[y][1] + inputs[y][2]) < 1 => (x[y][1] = 2000 /\ x[y][2] = 8000)

\* ---- the rate modifying factor
RmfReturned == pc = "rmf_done"

\* C8: for every climate, soil and cover, what get_rmf returns is the mean
\* over the 12 months of a_m * b_m * c_m, also when no month has rain below
\* evaporation (b is then 1 in every month).
C8_RmfIsMeanOfProduct ==
    RmfReturned =>
        rmf = MeanOfProduct([n \in 0..(Months - 1) |-> TempFactor(climate.temp[n])],
                            b,
                            [n \in 0..(Months - 1) |-> CoverFactor(cover[n])])

MoistureSet == pc \in {"rmf_loop", "rmf_factors", "rmf_done", "rmf_error", "rmf_exit"}
MoistureDone == pc \in {"rmf_factors", "rmf_done", "rmf_error"}
NoPositiveDeficit == \A n \in 0..(Months - 1) : climate.rain[n] - climate.evap[n] <= 0
NoNegativeDeficit == \A n \in 0..(Months - 1) : climate.rain[n] - climate.evap[n] >= 0

\* C14 as stated: if no month has rain - evap > 0, b is 1 in all 12 months.
C14_NoPositiveDeficitAllOnes ==
    (MoistureDone /\ NoPositiveDeficit) => \A n \in 0..(Months - 1) : b[n] = 1000

\* C14 as amended: if no month has rain - evap < 0, b is 1 in all 12 months.
C14_NoNegativeDeficitAllOnes ==
    (MoistureSet /\ NoNegativeDeficit) => \A n \in 0..(Months - 1) : b[n] = 1000

\* rain above evaporation in some month and below it in none
C14_Witness ==
    /\ RmfReturned /\ NoNegativeDeficit /\ ~NoPositiveDeficit
    /\ \A n \in 0..(Months - 1) : b[n] = 1000

\* the month the TSMD loop is at, its deficit rain - 0.75 * evap, and the cap
MonthAt == IF m < 0 THEN m + Months ELSE m
DeficitAt == climate.rain[MonthAt] - (3 * climate.evap[MonthAt]) \div 4
Cap == MaxTsmd(soil.clay, soil.depth)
\* a pass of the TSMD loop over a month without cover and with a deficit below 0
UncoveredDryPass == pc = "rmf_loop" /\ cover[MonthAt] = 0 /\ DeficitAt < 0
UncoveredDryMonth(n) ==
    cover[n] = 0 /\ climate.rain[n] - (3 * climate.evap[n]) \div 4 < 0

\* C15 as stated (TSMD, cap <= 0, compared as numbers): in a month with a
\* deficit below 0 and no cover TSMD is unchanged while above 0.556 * cap,
\* and once below it the deficit is added and the result clamped at
\* 0.556 * cap.
C15_UnchangedWhileAbove ==
    [][UncoveredDryPass =>
          /\ 1000 * accTsmd > 556 * Cap => accTsmd' = accTsmd
          /\ 1000 * accTsmd < 556 * Cap => accTsmd' = Limit556(Cap)]_vars

\* C15 as amended: in a month with a deficit below 0 and no cover TSMD is
\* unchanged when it is already below 0.556 * cap (a deficit deeper than bare
\* soil can reach); otherwise the deficit is added and the result is kept
\* from falling below 0.556 * cap.
C15_UnchangedWhenBelow ==
    [][UncoveredDryPass =>
          /\ 1000 * accTsmd < 556 * Cap => accTsmd' = accTsmd
          /\ 1000 * accTsmd >= 556 * Cap =>
                /\ 1000 * (accTsmd + DeficitAt) >= 556 * Cap => accTsmd' = accTsmd + DeficitAt
                /\ 1000 * (accTsmd + DeficitAt) < 556 * Cap => accTsmd' = Limit556(Cap)]_vars

\* a year in which one uncovered dry month left TSMD where covered months
\* had driven it, and another was stopped at 0.556 * cap
C15_Witness ==
    /\ RmfReturned
    /\ \E n1, n2 \in 0..(Months - 1) :
          /\ UncoveredDryMonth(n1) /\ 1000 * tsmd[n1] < 556 * Cap
          /\ UncoveredDryMonth(n2) /\ tsmd[n2] = Limit556(Cap)

\* C16: the moisture factor a pass of the TSMD loop gives its month, from
\* the TSMD accumulated up to that month: 1 if TSMD >= 0.444 * cap;
\* 0.2 + 0.8 * (cap - TSMD) / (0.556 * cap) (to 1/1000) if 0.444 * cap >
\* TSMD >= cap; below cap the run is aborted.
C16_MoistureFromTsmd ==
    [][pc = "rmf_loop" =>
          /\ 1000 * accTsmd' >= 444 * Cap =>
                pc' # "rmf_exit" /\ b'[MonthAt] = 1000 /\ tsmd'[MonthAt] = accTsmd'
          /\ (1000 * accTsmd' < 444 * Cap /\ accTsmd' >= Cap) =>
                /\ pc' # "rmf_exit" /\ tsmd'[MonthAt] = accTsmd'
                /\ Abs(139 * Cap * (b'[MonthAt] - 200) - 200000 * (Cap - accTsmd')) <= 139 * Abs(Cap)
          /\ accTsmd' < Cap => pc' = "rmf_exit"]_vars

\* a year with a month at factor 1, a month at the floor 0.2 and a month in
\* between
C16_Witness ==
    /\ RmfReturned
    /\ \E n1, n2, n3 \in 0..(Months - 1) :
          /\ b[n1] = 1000 /\ b[n2] = 200 /\ tsmd[n2] = Cap
          /\ b[n3] > 200 /\ b[n3] < 1000

\* the temperature factor of each month taken on its own
TempFactorByMonth ==
    [n \in 0..(Months - 1) |-> IF climate.temp[n] > -5 THEN TempFactor(climate.temp[n]) ELSE 0]

\* C17: for any mix of months above and at or below -5 degrees get_rmf gets
\* past the temperature factor without raising, and the factor it uses is,
\* month by month, the formula above -5 degrees and 0 otherwise.
C17_TempFactorPerMonth ==
    /\ pc # "rmf_error"
    /\ (RmfReturned /\ ~NoNegativeDeficit) =>
          rmf = MeanOfProduct(TempFactorByMonth, b,
                              [n \in 0..(Months - 1) |-> CoverFactor(cover[n])])

\* ---- the soil parameters
NonPhysical == soil.clay < 0 \/ soil.clay > 100 \/ soil.Cy0 < 0

\* C18: with clay outside [0, 100] or a negative Cy0 the construction of
\* the soil parameters ends the run: nothing is computed from such values.
C18_BadSoilIsFatal ==
    NonPhysical => pc \in {"soil_init", "soil_exit"}

\* ---- fixed-duration runs from the zero state
FromZero == FwdReturned /\ ~solveToValue /\ Ci = <<0, 0, 0, 0>>
TotalInput(y) == inputs[y][1] + inputs[y][2]

\* C19: with zero input in every year and a zero initial state, every pool
\* is zero in every one of the N_YEARS+1 rows of the trajectory.
C19_ZeroStaysZero ==
    (FromZero /\ \A y \in 0..(N_YEARS - 1) : inputs[y] = <<0, 0>>) =>
        /\ DOMAIN SOC = 0..N_YEARS
        /\ \A y \in 0..N_YEARS : SOC[y] = <<0, 0, 0, 0>>

C19_Witness ==
    /\ FromZero /\ \A y \in 0..(N_YEARS - 1) : inputs[y] = <<0, 0>>
    /\ SOC[N_YEARS] = <<0, 0, 0, 0>>

\* the same positive input in every year
ConstantInput == \A y \in 0..(N_YEARS - 1) : inputs[y] = inputs[0] /\ TotalInput(y) > 0
\* the total of the pools at which dC_dt is zero for the input of year 0
SteadyTotal == SumSeq(fsolve(x[0], k, TotalInput(0)))

\* C20: with the same positive input in every year, a rate modifying factor
\* of 1 and a zero initial state, the total of the pools never decreases
\* from one year to the next and never exceeds the steady-state total of
\* that input.
C20_BoundedGrowth ==
    (FromZero /\ ConstantInput /\ rmf = 1000) =>
        /\ \A y \in 0..(N_YEARS - 1) : SumSeq(SOC[y]) <= SumSeq(SOC[y + 1])
        /\ \A y \in 0..N_YEARS : SumSeq(SOC[y]) <= SteadyTotal

\* the stock has grown in the last year and is still below the steady state
C20_Witness ==
    /\ FromZero /\ ConstantInput /\ rmf = 1000
    /\ SumSeq(SOC[N_YEARS - 1]) < SumSeq(SOC[N_YEARS])
    /\ SumSeq(SOC[N_YEARS]) < SteadyTotal

\* ---- the scenario runs
SoilRuns == {"y0roth", "roth_base", "roth_inter"}
\* the fire vector of the scenario whose crops and trees the run is fed
OwnFire == IF run = "roth_inter" THEN intervention.fire ELSE baseline.fire

\* C9: the inputs of each soil model run are the outputs of its scenario's
\* crops and trees reduced by that scenario's own fire vector, whichever
\* scenario was constructed last.
C9_OwnFireSchedule ==
    (run \in SoilRuns /\ pc \in {"fwd_year", "fwd_inner", "fwd_outer", "fwd_after", "fwd_done"}) =>
        inputs = Reduced(OwnFire, crop, tree, litter)

\* the run is seeded with the equilibrium pools of a grid candidate and fed
\* that candidate's input, all woody, every year
EqSeeded ==
    \E inC \in EqInputs :
        /\ Ci = fsolve(InvPartitions(soil.clay), k, inC)
        /\ \A y \in 0..(N_YEARS - 1) : inputs[y] = <<0, inC>>

\* C10: a fixed-duration run seeded with the equilibrium pools and fed the
\* equilibrium input keeps the total of the pools within 1% of its start
\* value in every year.
C10_SteadyStateRoundTrip ==
    (FwdReturned /\ ~solveToValue /\ EqSeeded) =>
        \A y \in 0..N_YEARS :
            100 * Abs(SumSeq(SOC[y]) - SumSeq(Ci)) <= SumSeq(Ci)

C10_Witness ==
    /\ FwdReturned /\ ~solveToValue /\ EqSeeded
    /\ SumSeq(Ci) > 0

\* the positions inside ForwardRothC.solver
SolverPcs == {"fwd_start", "fwd_year", "fwd_inner", "fwd_outer", "fwd_after"}

C22_CapNotPositive ==
    (pc # "soil_init" /\ soil.clay \in 0..100 /\ soil.depth = 30) =>
        MaxTsmd(soil.clay, soil.depth) <= 0

C22_Witness ==
    /\ pc = "rmf_loop" /\ soil.clay = 100 /\ soil.depth = 30
    /\ MaxTsmd(soil.clay, soil.depth) < 0 /\ accTsmd < 0

\* the months with rain above and below evaporation, the first month of the
\* calendar with rain above evaporation, the first month from p on
\* (cyclically) with rain below evaporation, and the month before that one
HasWet == \E n \in 0..(Months - 1) : climate.rain[n] - climate.evap[n] > 0
HasDry == \E n \in 0..(Months - 1) : climate.rain[n] - climate.evap[n] < 0
FirstWet == SetMin({n \in 0..(Months - 1) : climate.rain[n] - climate.evap[n] > 0})
FirstDryFrom(p) ==
    (p + SetMin({n \in 0..(Months - 1) :
                    climate.rain[(p + n) % Months] - climate.evap[(p + n) % Months] < 0})) % Months
StartMonth == (FirstDryFrom(FirstWet) + Months - 1) % Months

\* C23: with a month of rain above and a month of rain below evaporation,
\* the TSMD loop starts with TSMD 0 at the month cyclically before the first
\* month with rain - evap < 0 from the first positive-deficit month on; pass
\* n of the loop is at month (start + n) mod 12, updates the TSMD carried
\* from the pass before with the deficit rain - 0.75 * evap of its month, and
\* the loop ends after 12 passes.
C23_TsmdLoopOrder ==
    [][(HasWet /\ HasDry) =>
          /\ pc = "rmf_start" =>
                /\ pc' = "rmf_loop" /\ accTsmd' = 0 /\ month_i' = 0
                /\ MonthAt' = StartMonth
          /\ pc = "rmf_loop" =>
                /\ MonthAt = (StartMonth + month_i) % Months
                /\ accTsmd' = AccTsmd(accTsmd, DeficitAt, cover[MonthAt], Cap)
                /\ pc' # "rmf_exit" =>
                      /\ tsmd'[MonthAt] = accTsmd'
                      /\ month_i' = month_i + 1
                      /\ pc' = IF month_i' = Months THEN "rmf_factors" ELSE "rmf_loop"]_vars

\* a loop that started in December (the first dry month is January) and
\* has gone round the year
C23_Witness ==
    /\ pc = "rmf_factors" /\ HasWet /\ HasDry
    /\ StartMonth = Months - 1 /\ MonthAt = Months - 1 /\ month_i = Months
    /\ tsmd[0] < 0 /\ tsmd[Months - 1] = 0

\* C24: with a cap below 0, the TSMD that get_rmf accumulates from 0 is
\* within [cap, 0] after every pass of the loop, and the abort for a TSMD
\* below the cap is not reached.
C24_TsmdWithinCap ==
    (pc \in {"rmf_loop", "rmf_factors", "rmf_exit"} /\ Cap < 0) =>
        /\ Cap <= accTsmd /\ accTsmd <= 0
        /\ \A n \in 0..(Months - 1) : Cap <= tsmd[n] /\ tsmd[n] <= 0
        /\ pc # "rmf_exit"

\* a year with a covered month held at the cap and a wet month that brought
\* TSMD back to 0
C24_Witness ==
    /\ pc = "rmf_factors" /\ Cap < 0
    /\ \E n1, n3 \in 0..(Months - 1) :
          /\ cover[n1] = 1 /\ tsmd[n1] = Cap
          /\ climate.rain[n3] - (3 * climate.evap[n3]) \div 4 > 0 /\ tsmd[n3] = 0

\* the error decreases from each candidate of the grid to the next
DecreasesOverGrid == \A n \in Grid : n + 1 \in Grid => CurrDiff(n + 1) < CurrDiff(n)
LastOfGrid == CHOOSE n \in Grid : \A n2 \in Grid : n2 <= n

\* C25: the solver evaluates no candidate outside the grid and ends after at
\* most one pass per candidate; when the error decreases over the whole grid
\* it returns the last candidate of the grid and its pools.
C25_ReturnsLastOfGrid ==
    /\ g \in Grid
    /\ (DecreasesOverGrid /\ InvEnded) =>
          /\ InvReturned
          /\ eqInput = GridInput(LastOfGrid) /\ eqC = fsolveOut[LastOfGrid]

\* the sub-step rows of year y, recomputed from the pools the year started at
RowsOfYear(y) == odeint(C[y - 1], x[y - 1], k, inputs[y - 1][1] + inputs[y - 1][2])

\* C26: a solve-to-value run returns as its final row the state at sub-step
\* closest_j of year closest_i, the sub-step its year offset closest_j/len(t)
\* names.
C26_OffsetNamesReturnedState ==
    (FwdReturned /\ solveToValue) =>
        /\ Cy0Year = FractionOfYear(closest_j, closest_i)
        /\ Last0(SOC) = RowsOfYear(closest_i)[closest_j]

\* C27: a solve-to-value run returns a result whatever the initial pools and
\* the target: closest_i, closest_j and c_outer are bound when the year loop
\* is left, and the run does not raise.
C27_SolveToValueReturns ==
    solveToValue =>
        /\ pc \in {"fwd_after", "fwd_done"} =>
              {"closest_i", "closest_j", "c_outer"} \subseteq assigned
        /\ pc # "fwd_error"

\* C28: a solve-to-value run returns fewer than N_YEARS+1 rows, the length
\* by which plot_, print_ and save_ recognise a fixed-duration run.
C28_FewerRowsThanFixedRun ==
    (FwdReturned /\ solveToValue) => NRows(SOC) < N_YEARS + 1

\* the pools a whole year after the start of year y: one step of length
\* 1/len(t) on from the last row odeint returns, which is at time
\* 1 - 1/len(t)
EndOfFullYear(y) ==
    OdeStep(RowsOfYear(y)[TSteps - 1], x[y - 1], k, inputs[y - 1][1] + inputs[y - 1][2])

\* C29: the pools stored as year y are the solution of the year's system at
\* time exactly 1 after the pools of year y-1.
C29_YearIsUnitInterval ==
    (FwdReturned /\ ~solveToValue) =>
        \A y \in 1..N_YEARS : SOC[y] = EndOfFullYear(y)

\* some crop, tree or litter object has an output series of a length other
\* than N_YEARS
LengthMismatch ==
    \E objs \in {crop, tree, litter} : \E n \in 1..Len(objs) :
        SeriesLen(objs[n].above) # N_YEARS \/ SeriesLen(objs[n].below) # N_YEARS

\* C30: with an input series of a length other than N_YEARS the forward run
\* raises before its first year and returns no trajectory.
C30_MismatchIsFatal ==
    LengthMismatch => (pc \in {"fwd_start", "fwd_error"} /\ SOC = <<>>)

====
